---- MODULE Spec2Model ----
(***************************************************************************)
(* Model of extra/convert_srtm.py: the import guard, the __main__ block    *)
(* and convert_srtm_to_json, one action per statement group.               *)
(*                                                                         *)
(* Geographic coordinates are integers in units of 1e-7 degree, so that    *)
(* the bounding box and the test point keep the values of the source.      *)
(* A raster transform is the affine map  x = a*col + c,  y = e*row + f     *)
(* (no rotation terms); rowcol is its inverse followed by floor.           *)
(* numpy arrays derived from the band (the subset and the sampled grid)    *)
(* are views: the base rows and the base columns they select, in order.    *)
(* Row and column indices are 0-based as in the source.                    *)
(***************************************************************************)
EXTENDS Integers, Sequences, FiniteSets, TLC

VARIABLES
    pc,                 \* the statement group about to run, "exited" at the end
    depAvailable,       \* can rasterio be imported
    argv,               \* sys.argv, the script name first
    diagnostics,        \* TRUE: the script as written; FALSE: its diagnostic statements removed
    fs0,                \* the file system when the process starts
    fs,                 \* the file system: path -> file
    opened,             \* the paths opened for writing, in order
    done,               \* the statement groups that have completed
    exitStatus,         \* the process's exit status, -1 while it runs
    error,              \* the exception that ended the run, "none" otherwise
    input_file, output_file,
    dsOpen,             \* the dataset src is open
    height, width, transform,
    elevation,          \* the band: a sequence of rows
    row_min, col_min, row_max, col_max,
    row_start, row_end, col_start, col_end,
    elevation_subset, test_row, test_col, elevation_sampled,
    output_data

vars == <<pc, depAvailable, argv, diagnostics, fs0, fs, opened, done, exitStatus,
          error, input_file, output_file, dsOpen, height, width, transform,
          elevation, row_min, col_min, row_max, col_max, row_start, row_end,
          col_start, col_end, elevation_subset, test_row, test_col,
          elevation_sampled, output_data>>

----------------------------------------------------------------------------
(* Bounds of the model *)

MaxH == 5
MaxW == 6
MaxShift == 1
MaxDim == 7
PixelSize == 250000

(* Constants of the program (units of 1e-7 degree where geographic) *)

aegina_lon_min == 234174315
aegina_lon_max == 235652998
aegina_lat_min == 376735755
aegina_lat_max == 377751140
test_lon == 234900000
test_lat == 377200000
sample_rate == 3
MinArgc == 2

DefaultOutput == "aegina_elevation.json"
Paths == {DefaultOutput, "out.json"}
Argvs == { <<"convert_srtm.py">>,
           <<"convert_srtm.py", "N37E023.tif">>,
           <<"convert_srtm.py", "N37E023.tif", "out.json">> }

None == [none |-> TRUE]
NoFile == [kind |-> "none"]
Stale == [kind |-> "stale"]
Partial == [kind |-> "partial"]
JsonFile(data) == [kind |-> "json", data |-> data]

----------------------------------------------------------------------------
(* Python and numpy helpers *)

Min2_First(a, b) == a
Min2(a, b) == IF a <= b THEN a ELSE b
Max2(a, b) == IF a >= b THEN a ELSE b

\* floor(n / d) for d # 0
FloorDiv(n, d) == IF d > 0 THEN n \div d ELSE (0 - n) \div (0 - d)

\* rasterio.transform.rowcol(transform, x, y): <<row, col>>
rowcol(t, x, y) == << FloorDiv(y - t.f, t.e), FloorDiv(x - t.c, t.a) >>

\* range(start, stop, step), step > 0
RECURSIVE PyRange(_, _, _)
PyRange(start, stop, step) ==
    IF start >= stop THEN << >>
    ELSE << start >> \o PyRange(start + step, stop, step)

\* a slice bound i adjusted to an axis of length n (step > 0)
SliceBound(i, n) ==
    IF i < 0 THEN Max2(i + n, 0) ELSE Min2(i, n)

\* the positions a[start:stop:step] selects on an axis of length n
SliceIndices(start, stop, step, n) ==
    PyRange(SliceBound(start, n), SliceBound(stop, n), step)

\* view[r0:r1:rs, c0:c1:cs]
Slice2D(view, r0, r1, rs, c0, c1, cs) ==
    LET ri == SliceIndices(r0, r1, rs, Len(view.rows))
        ci == SliceIndices(c0, c1, cs, Len(view.cols))
    IN [rows |-> [k \in 1..Len(ri) |-> view.rows[ri[k] + 1]],
        cols |-> [k \in 1..Len(ci) |-> view.cols[ci[k] + 1]]]

\* the whole band as a view
FullView(h, w) == [rows |-> PyRange(0, h, 1), cols |-> PyRange(0, w, 1)]

Shape(view) == << Len(view.rows), Len(view.cols) >>
Size(view) == Len(view.rows) * Len(view.cols)

\* view[i, j] read through to the band
Elem(band, view, i, j) == band[view.rows[i + 1] + 1][view.cols[j + 1] + 1]

\* view.tolist()
ToList(band, view) ==
    [i \in 1..Len(view.rows) |->
        [j \in 1..Len(view.cols) |-> band[view.rows[i] + 1][view.cols[j] + 1]]]

\* np.min / np.max of a zero-size array raise ValueError
IsEmpty_RowsOnly(view) == Len(view.rows) = 0
IsEmpty(view) == Size(view) = 0

\* a[i] on an axis of length n raises IndexError outside -n .. n-1
IndexInRange_NoWrap(i, n) == 0 <= i /\ i < n
IndexInRange(i, n) == (0 - n) <= i /\ i < n

----------------------------------------------------------------------------
(* The rasters the environment can supply *)

Shifts == (0 - (MaxShift + 1))..MaxShift

\* sx, sy: the direction of increasing column / row; ox, oy: the index the
\* inverse transform gives the box corner nearest the raster's origin
Transform(sx, sy, ox, oy) ==
    [a |-> sx * PixelSize,
     c |-> IF sx > 0 THEN aegina_lon_min - ox * PixelSize
                     ELSE aegina_lon_max + ox * PixelSize,
     e |-> sy * PixelSize,
     f |-> IF sy < 0 THEN aegina_lat_max + oy * PixelSize
                     ELSE aegina_lat_min - oy * PixelSize]

Transforms == { Transform(sx, sy, ox, oy) : sx \in {1, -1}, sy \in {1, -1},
                                            ox \in Shifts, oy \in Shifts }

\* src.read(1): a band of h rows and w columns, a distinct value in every cell,
\* the first row at or below sea level
Band(h, w) == [r \in 1..h |-> [c \in 1..w |-> (r - 1) * w + c - w]]

----------------------------------------------------------------------------
(* The statements of the script *)

\* the order of the statement groups
Steps == << "import", "main", "open", "read", "window", "slice", "subset_stats",
            "test_point", "sample", "build", "write", "stats", "close" >>

StepIndex(s) == CHOOSE k \in 1..Len(Steps) : Steps[k] = s

NextStep_WriteEarly(s) ==
    IF s = "slice" THEN "write" ELSE Steps[StepIndex(s) + 1]
NextStep(s) == Steps[StepIndex(s) + 1]

\* the statement groups inside the with block
WithBlock == {"read", "window", "slice", "subset_stats", "test_point", "sample",
              "build", "write", "stats", "close"}

\* the statement groups that read src
UsesSrc == {"read", "window", "test_point", "build"}

\* except ImportError
ImportFails_Swallowed == FALSE
ImportFails == ~depAvailable

ImportExitStatus == 1
UsageExitStatus_Zero == 1 - 1
UsageExitStatus == 1

\* len(sys.argv) < 2
MissingArgument == Len(argv) < MinArgc

\* the output path convert_srtm_to_json is called with
CallOutputFile_FromArgv == IF Len(argv) >= 3 THEN argv[3] ELSE DefaultOutput
CallOutputFile == DefaultOutput

\* is the dataset open once an exception has left the with block
OpenAfterRaise_Leaked == dsOpen
OpenAfterRaise == FALSE

\* sys.exit(status) before the conversion
Exit(status, err) ==
    /\ pc' = "exited"
    /\ exitStatus' = status
    /\ error' = err

\* an exception raised inside the with block: the block's exit closes src, and
\* the uncaught exception ends the process with status 1
Raise(err) ==
    /\ pc' = "exited"
    /\ exitStatus' = 1
    /\ error' = err
    /\ dsOpen' = OpenAfterRaise

Advance(s) ==
    /\ pc' = NextStep(s)
    /\ done' = done \cup {s}

\* elevation_sampled.shape[0], elevation_sampled.shape[1]
Resolution_Swapped(view) == [rows |-> Shape(view)[2], cols |-> Shape(view)[1]]
Resolution(view) == [rows |-> Shape(view)[1], cols |-> Shape(view)[2]]

OutputData(band, view) ==
    [bounds |-> [lon_min |-> aegina_lon_min, lon_max |-> aegina_lon_max,
                 lat_min |-> aegina_lat_min, lat_max |-> aegina_lat_max],
     resolution |-> Resolution(view),
     elevations |-> ToList(band, view)]

----------------------------------------------------------------------------
(* Actions *)

\* lines 11-17: the import guard
ImportGuard ==
    /\ pc = "import"
    /\ IF ImportFails
       THEN /\ Exit(ImportExitStatus, "ImportError")
            /\ UNCHANGED done
       ELSE /\ Advance("import")
            /\ UNCHANGED <<exitStatus, error>>
    /\ UNCHANGED <<depAvailable, argv, diagnostics, fs0, fs, opened, input_file,
                   output_file, dsOpen, height, width, transform, elevation,
                   row_min, col_min, row_max, col_max, row_start, row_end,
                   col_start, col_end, elevation_subset, test_row, test_col,
                   elevation_sampled, output_data>>

\* lines 115-122: the argument check and the call of convert_srtm_to_json
Main ==
    /\ pc = "main"
    /\ IF MissingArgument
       THEN /\ Exit(UsageExitStatus, "usage")
            /\ UNCHANGED <<done, input_file, output_file>>
       ELSE /\ input_file' = argv[2]
            /\ output_file' = CallOutputFile
            /\ Advance("main")
            /\ UNCHANGED <<exitStatus, error>>
    /\ UNCHANGED <<depAvailable, argv, diagnostics, fs0, fs, opened, dsOpen,
                   height, width, transform, elevation, row_min, col_min,
                   row_max, col_max, row_start, row_end, col_start, col_end,
                   elevation_subset, test_row, test_col, elevation_sampled,
                   output_data>>

\* line 24: rasterio.open(input_file); a failure is raised before the with
\* block is entered, so there is no dataset to close
Open ==
    /\ pc = "open"
    /\ \/ /\ Exit(1, "RasterioIOError")
          /\ UNCHANGED <<done, dsOpen, height, width, transform>>
       \/ \E h \in 1..MaxH, w \in 1..MaxW, t \in Transforms :
            /\ dsOpen' = TRUE
            /\ height' = h
            /\ width' = w
            /\ transform' = t
            /\ Advance("open")
            /\ UNCHANGED <<exitStatus, error>>
    /\ UNCHANGED <<depAvailable, argv, diagnostics, fs0, fs, opened, input_file,
                   output_file, elevation, row_min, col_min, row_max, col_max,
                   row_start, row_end, col_start, col_end, elevation_subset,
                   test_row, test_col, elevation_sampled, output_data>>

\* line 26: elevation = src.read(1)
Read ==
    /\ pc = "read"
    /\ dsOpen
    /\ \/ /\ Raise("RasterioIOError")
          /\ UNCHANGED <<done, elevation>>
       \/ /\ elevation' = Band(height, width)
          /\ Advance("read")
          /\ UNCHANGED <<exitStatus, error, dsOpen>>
    /\ UNCHANGED <<depAvailable, argv, diagnostics, fs0, fs, opened, input_file,
                   output_file, height, width, transform, row_min, col_min,
                   row_max, col_max, row_start, row_end, col_start, col_end,
                   elevation_subset, test_row, test_col, elevation_sampled,
                   output_data>>

\* lines 45-52: the two corners through rowcol, then min / max
Window ==
    /\ pc = "window"
    /\ dsOpen
    /\ LET ul == rowcol(transform, aegina_lon_min, aegina_lat_max)
           lr == rowcol(transform, aegina_lon_max, aegina_lat_min)
       IN /\ row_min' = ul[1]
          /\ col_min' = ul[2]
          /\ row_max' = lr[1]
          /\ col_max' = lr[2]
          /\ row_start' = Min2(ul[1], lr[1])
          /\ row_end' = Max2(ul[1], lr[1])
          /\ col_start' = Min2(ul[2], lr[2])
          /\ col_end' = Max2(ul[2], lr[2])
    /\ Advance("window")
    /\ UNCHANGED <<depAvailable, argv, diagnostics, fs0, fs, opened, exitStatus,
                   error, input_file, output_file, dsOpen, height, width,
                   transform, elevation, elevation_subset, test_row, test_col,
                   elevation_sampled, output_data>>

\* line 57: elevation_subset = elevation[row_start:row_end, col_start:col_end]
Slice ==
    /\ pc = "slice"
    /\ elevation_subset' = Slice2D(FullView(height, width),
                                   row_start, row_end, 1, col_start, col_end, 1)
    /\ Advance("slice")
    /\ UNCHANGED <<depAvailable, argv, diagnostics, fs0, fs, opened, exitStatus,
                   error, input_file, output_file, dsOpen, height, width,
                   transform, elevation, row_min, col_min, row_max, col_max,
                   row_start, row_end, col_start, col_end, test_row, test_col,
                   elevation_sampled, output_data>>

\* lines 59-60: np.min and np.max of the subset
SubsetStats ==
    /\ pc = "subset_stats"
    /\ IF diagnostics /\ IsEmpty(elevation_subset)
       THEN /\ Raise("ValueError")
            /\ UNCHANGED done
       ELSE /\ pc' = NextStep("subset_stats")
            /\ done' = IF diagnostics THEN done \cup {"subset_stats"} ELSE done
            /\ UNCHANGED <<exitStatus, error, dsOpen>>
    /\ UNCHANGED <<depAvailable, argv, diagnostics, fs0, fs, opened, input_file,
                   output_file, height, width, transform, elevation, row_min,
                   col_min, row_max, col_max, row_start, row_end, col_start,
                   col_end, elevation_subset, test_row, test_col,
                   elevation_sampled, output_data>>

\* lines 63-69: the elevation at the test point
TestPoint ==
    /\ pc = "test_point"
    /\ IF diagnostics
       THEN /\ dsOpen
            /\ LET rc == rowcol(transform, test_lon, test_lat)
               IN /\ test_row' = rc[1]
                  /\ test_col' = rc[2]
                  /\ IF IndexInRange(rc[1], height) /\ IndexInRange(rc[2], width)
                     THEN /\ Advance("test_point")
                          /\ UNCHANGED <<exitStatus, error, dsOpen>>
                     ELSE /\ Raise("IndexError")
                          /\ UNCHANGED done
       ELSE /\ pc' = NextStep("test_point")
            /\ UNCHANGED <<done, exitStatus, error, dsOpen, test_row, test_col>>
    /\ UNCHANGED <<depAvailable, argv, diagnostics, fs0, fs, opened, input_file,
                   output_file, height, width, transform, elevation, row_min,
                   col_min, row_max, col_max, row_start, row_end, col_start,
                   col_end, elevation_subset, elevation_sampled, output_data>>

\* view[::sample_rate, ::sample_rate]
SampleView_FromOne(view) ==
    Slice2D(view, 1, Len(view.rows), sample_rate, 1, Len(view.cols), sample_rate)
SampleView(view) ==
    Slice2D(view, 0, Len(view.rows), sample_rate, 0, Len(view.cols), sample_rate)

\* lines 72-73: elevation_sampled = elevation_subset[::sample_rate, ::sample_rate]
Sample ==
    /\ pc = "sample"
    /\ elevation_sampled' = SampleView(elevation_subset)
    /\ Advance("sample")
    /\ UNCHANGED <<depAvailable, argv, diagnostics, fs0, fs, opened, exitStatus,
                   error, input_file, output_file, dsOpen, height, width,
                   transform, elevation, row_min, col_min, row_max, col_max,
                   row_start, row_end, col_start, col_end, elevation_subset,
                   test_row, test_col, output_data>>

\* lines 79-96: the corner coordinates through src.transform (the last use of
\* src; the values are not used) and the output document
Build ==
    /\ pc = "build"
    /\ dsOpen
    /\ output_data' = OutputData(elevation, elevation_sampled)
    /\ Advance("build")
    /\ UNCHANGED <<depAvailable, argv, diagnostics, fs0, fs, opened, exitStatus,
                   error, input_file, output_file, dsOpen, height, width,
                   transform, elevation, row_min, col_min, row_max, col_max,
                   row_start, row_end, col_start, col_end, elevation_subset,
                   test_row, test_col, elevation_sampled>>

\* lines 100-101: open(output_file, 'w') and json.dump; open can fail, leaving
\* the file system as it was, and the dump can fail after the file was truncated
Write ==
    /\ pc = "write"
    /\ \/ /\ Raise("OSError")
          /\ UNCHANGED <<done, fs, opened>>
       \/ /\ opened' = Append(opened, output_file)
          /\ fs' = [fs EXCEPT ![output_file] = Partial]
          /\ Raise("OSError")
          /\ UNCHANGED done
       \/ /\ opened' = Append(opened, output_file)
          /\ fs' = [fs EXCEPT ![output_file] = JsonFile(output_data)]
          /\ Advance("write")
          /\ UNCHANGED <<exitStatus, error, dsOpen>>
    /\ UNCHANGED <<depAvailable, argv, diagnostics, fs0, input_file, output_file,
                   height, width, transform, elevation, row_min, col_min,
                   row_max, col_max, row_start, row_end, col_start, col_end,
                   elevation_subset, test_row, test_col, elevation_sampled,
                   output_data>>

\* lines 103-113: size, min, max, mean and land count of the sampled grid
Stats ==
    /\ pc = "stats"
    /\ IF diagnostics /\ IsEmpty(elevation_sampled)
       THEN /\ Raise("ValueError")
            /\ UNCHANGED done
       ELSE /\ pc' = NextStep("stats")
            /\ done' = IF diagnostics THEN done \cup {"stats"} ELSE done
            /\ UNCHANGED <<exitStatus, error, dsOpen>>
    /\ UNCHANGED <<depAvailable, argv, diagnostics, fs0, fs, opened, input_file,
                   output_file, height, width, transform, elevation, row_min,
                   col_min, row_max, col_max, row_start, row_end, col_start,
                   col_end, elevation_subset, test_row, test_col,
                   elevation_sampled, output_data>>

\* the end of the with block closes src; the function returns and the script
\* ends with status 0
Close ==
    /\ pc = "close"
    /\ dsOpen' = FALSE
    /\ pc' = "exited"
    /\ exitStatus' = 0
    /\ done' = done \cup {"close"}
    /\ UNCHANGED <<depAvailable, argv, diagnostics, fs0, fs, opened, error,
                   input_file, output_file, height, width, transform, elevation,
                   row_min, col_min, row_max, col_max, row_start, row_end,
                   col_start, col_end, elevation_subset, test_row, test_col,
                   elevation_sampled, output_data>>

----------------------------------------------------------------------------
(* Specifications *)

\* the process before its first statement
Start ==
    /\ pc = "import"
    /\ depAvailable \in BOOLEAN
    /\ argv \in Argvs
    /\ fs0 \in [Paths -> {NoFile, Stale}]
    /\ fs = fs0
    /\ opened = << >>
    /\ done = {}
    /\ exitStatus = -1
    /\ error = "none"
    /\ input_file = ""
    /\ output_file = ""
    /\ dsOpen = FALSE
    /\ height = 0
    /\ width = 0
    /\ transform = None
    /\ elevation = << >>
    /\ row_min = 0 /\ col_min = 0 /\ row_max = 0 /\ col_max = 0
    /\ row_start = 0 /\ row_end = 0 /\ col_start = 0 /\ col_end = 0
    /\ elevation_subset = None
    /\ test_row = 0 /\ test_col = 0
    /\ elevation_sampled = None
    /\ output_data = None

Init == Start /\ diagnostics = TRUE

Next ==
    \/ ImportGuard
    \/ Main
    \/ Open
    \/ Read
    \/ Window
    \/ Slice
    \/ SubsetStats
    \/ TestPoint
    \/ Sample
    \/ Build
    \/ Write
    \/ Stats
    \/ Close

Spec == Init /\ [][Next]_vars

\* the script as written beside the script with its diagnostic statements removed
InitDiag == Start /\ diagnostics \in BOOLEAN

SpecDiag == InitDiag /\ [][Next]_vars

\* the down-sampling alone, on every slice of r x c cells that starts at
\* (r0, c0) of its band
InitSample ==
    /\ pc = "sample"
    /\ depAvailable = TRUE
    /\ argv = <<"convert_srtm.py", "N37E023.tif">>
    /\ diagnostics = TRUE
    /\ fs0 = [p \in Paths |-> NoFile]
    /\ fs = fs0
    /\ opened = << >>
    /\ done = {}
    /\ exitStatus = -1
    /\ error = "none"
    /\ input_file = "N37E023.tif"
    /\ output_file = DefaultOutput
    /\ dsOpen = TRUE
    /\ transform = None
    /\ \E r \in 0..MaxDim, c \in 0..MaxDim, r0 \in 0..1, c0 \in 0..1 :
         /\ height = r0 + r
         /\ width = c0 + c
         /\ elevation = Band(r0 + r, c0 + c)
         /\ row_start = r0 /\ row_end = r0 + r
         /\ col_start = c0 /\ col_end = c0 + c
         /\ row_min = r0 /\ row_max = r0 + r
         /\ col_min = c0 /\ col_max = c0 + c
         /\ elevation_subset = Slice2D(FullView(r0 + r, c0 + c),
                                       r0, r0 + r, 1, c0, c0 + c, 1)
    /\ test_row = 0 /\ test_col = 0
    /\ elevation_sampled = None
    /\ output_data = None

NextSample == Sample

SpecSample == InitSample /\ [][NextSample]_vars

----------------------------------------------------------------------------
(* Properties *)

Finished == pc = "exited"
Succeeded == pc = "exited" /\ exitStatus = 0

\* the path the second command-line argument names, the default without one
RequestedOutput == IF Len(argv) >= 3 THEN argv[3] ELSE DefaultOutput

\* C1 as stated: a successful run writes the JSON document to the path given as
\* the second argument when there is one, and to aegina_elevation.json only
\* when there is none.
C1_Original ==
    Succeeded =>
        /\ opened = << RequestedOutput >>
        /\ fs[RequestedOutput].kind = "json"

\* C1 amended: a successful run writes the JSON document to
\* aegina_elevation.json whether or not a second argument is given; the second
\* argument is ignored and the file it names is left as it was.
C1_WritesDefaultOnly ==
    Succeeded =>
        /\ opened = << DefaultOutput >>
        /\ fs[DefaultOutput] = JsonFile(output_data)
        /\ \A p \in Paths \ {DefaultOutput} : fs[p] = fs0[p]

C1_Witness ==
    /\ Succeeded
    /\ Len(argv) >= 3
    /\ argv[3] # DefaultOutput
    /\ fs[DefaultOutput].kind = "json"

\* a corner index that is negative or beyond the raster's height or width
CornerOutOfRange ==
    \/ row_min < 0 \/ row_min > height
    \/ row_max < 0 \/ row_max > height
    \/ col_min < 0 \/ col_min > width
    \/ col_max < 0 \/ col_max > width

SubsetIsEmpty == Len(elevation_subset.rows) = 0 \/ Len(elevation_subset.cols) = 0

\* the index of the test point, from the transform
TestIndex == rowcol(transform, test_lon, test_lat)

TestIndexOutside ==
    \/ TestIndex[1] < 0 - height \/ TestIndex[1] >= height
    \/ TestIndex[2] < 0 - width \/ TestIndex[2] >= width

\* C2 as stated: whenever a bounding-box corner maps to a row or column index
\* that is negative or beyond the raster's height or width, the run ends with a
\* non-zero exit status.
C2_Original ==
    (Finished /\ "window" \in done /\ CornerOutOfRange) => exitStatus # 0

\* C2 amended: an out-of-range corner index alone does not fail the run, the
\* slice bounds are clipped (wrapped when negative). The run ends with an
\* uncaught ValueError or IndexError, a non-zero status and nothing written
\* exactly when the clipped slice is empty or the test point's index is
\* outside -height..height-1 / -width..width-1.
C2_FailsIffEmptyOrTestOutside ==
    (Finished /\ "slice" \in done) =>
        IF SubsetIsEmpty \/ TestIndexOutside
        THEN /\ exitStatus = 1
             /\ error \in {"ValueError", "IndexError"}
             /\ opened = << >>
             /\ fs = fs0
        ELSE error \notin {"ValueError", "IndexError"}

C2_Witness ==
    /\ Finished
    /\ "slice" \in done
    /\ CornerOutOfRange
    /\ SubsetIsEmpty
    /\ ~TestIndexOutside
    /\ error = "ValueError"

CeilDiv(n, d) == (n + d - 1) \div d

\* C3: the sampled grid of an R x C slice has ceil(R/3) rows and ceil(C/3)
\* columns, and its element (i, j) is the slice's element (3i, 3j).
C3_SampledGrid ==
    "sample" \in done =>
        /\ Shape(elevation_sampled) =
               << CeilDiv(Len(elevation_subset.rows), 3),
                  CeilDiv(Len(elevation_subset.cols), 3) >>
        /\ \A i \in 0..(Len(elevation_sampled.rows) - 1),
              j \in 0..(Len(elevation_sampled.cols) - 1) :
               Elem(elevation, elevation_sampled, i, j) =
                   Elem(elevation, elevation_subset, 3 * i, 3 * j)

C3_Witness ==
    /\ "sample" \in done
    /\ Len(elevation_subset.rows) = 4
    /\ Len(elevation_subset.cols) = 5
    /\ elevation_subset.rows[1] = 1
    /\ Shape(elevation_sampled) = << 2, 2 >>

\* C4: in every output document written, resolution.rows is the number of rows
\* of elevations and resolution.cols the length of each of its rows.
C4_ResolutionMatches ==
    \A p \in Paths :
        fs[p].kind = "json" =>
            /\ fs[p].data.resolution.rows = Len(fs[p].data.elevations)
            /\ \A k \in 1..Len(fs[p].data.elevations) :
                   Len(fs[p].data.elevations[k]) = fs[p].data.resolution.cols

C4_Witness ==
    /\ fs[DefaultOutput].kind = "json"
    /\ fs[DefaultOutput].data.resolution.rows = 2
    /\ fs[DefaultOutput].data.resolution.cols = 1
    /\ Len(fs[DefaultOutput].data.elevations) = 2

\* C5: with rasterio available and no input file argument, the process exits
\* with status 1, never enters the conversion and creates no output file.
C5_MissingArgument ==
    (depAvailable /\ Len(argv) < 2) =>
        /\ pc \in {"import", "main", "exited"}
        /\ done \subseteq {"import"}
        /\ ~dsOpen
        /\ opened = << >>
        /\ fs = fs0
        /\ Finished => exitStatus = 1

C5_Witness ==
    /\ Finished
    /\ depAvailable
    /\ Len(argv) < 2
    /\ error = "usage"

\* C6: when rasterio cannot be imported, the process exits with status 1
\* before the argument check and before any conversion step, whatever the
\* arguments, and creates no output file.
C6_MissingDependency ==
    ~depAvailable =>
        /\ pc \in {"import", "exited"}
        /\ done = {}
        /\ ~dsOpen
        /\ opened = << >>
        /\ fs = fs0
        /\ Finished => (exitStatus = 1 /\ error = "ImportError")

C6_Witness ==
    /\ Finished
    /\ ~depAvailable
    /\ Len(argv) < 2
    /\ exitStatus = 1

\* C7: the dataset is closed in every terminal state, however the with block
\* was left, and it is open at every statement of the block, so never
\* released before the last statement that uses it.
C7_DatasetReleased ==
    /\ Finished => ~dsOpen
    /\ pc \in WithBlock => dsOpen
    /\ pc \in UsesSrc => dsOpen

C7_Witness ==
    /\ Finished
    /\ "build" \in done
    /\ error = "OSError"
    /\ ~dsOpen

WindowInRaster ==
    /\ 0 <= row_start /\ row_end <= height
    /\ 0 <= col_start /\ col_end <= width

WindowNormalized ==
    /\ row_start <= row_end
    /\ col_start <= col_end
    /\ row_start \in {row_min, row_max} /\ row_start <= row_min /\ row_start <= row_max
    /\ row_end \in {row_min, row_max} /\ row_end >= row_min /\ row_end >= row_max
    /\ col_start \in {col_min, col_max} /\ col_start <= col_min /\ col_start <= col_max
    /\ col_end \in {col_min, col_max} /\ col_end >= col_min /\ col_end >= col_max

SliceIsWindow ==
    /\ elevation_subset.rows = [k \in 1..(row_end - row_start) |-> row_start + k - 1]
    /\ elevation_subset.cols = [k \in 1..(col_end - col_start) |-> col_start + k - 1]

\* C8 as stated: the window is the min / max of the two corners' rows and
\* columns, and the slice taken is rows row_start..row_end-1 and columns
\* col_start..col_end-1, whatever the raster.
C8_Original ==
    /\ "window" \in done => WindowNormalized
    /\ "slice" \in done => SliceIsWindow

\* C8 amended: the window is the min / max of the two corners' rows and
\* columns, whatever the orientation; the slice taken is rows
\* row_start..row_end-1 and columns col_start..col_end-1 when the window lies
\* within the raster (0 <= start, end <= height / width). Outside that the
\* slice bounds are clipped or wrapped and the slice is a different set of rows
\* and columns.
C8_WindowAndSlice ==
    /\ "window" \in done => WindowNormalized
    /\ ("slice" \in done /\ WindowInRaster) => SliceIsWindow

C8_Witness ==
    /\ "slice" \in done
    /\ row_min > row_max
    /\ col_min > col_max
    /\ WindowInRaster
    /\ Len(elevation_subset.rows) = 4
    /\ Len(elevation_subset.cols) = 5

\* what the script without its diagnostic statements writes for the raster
RefSubset ==
    LET ul == rowcol(transform, aegina_lon_min, aegina_lat_max)
        lr == rowcol(transform, aegina_lon_max, aegina_lat_min)
        lo(a, b) == IF a <= b THEN a ELSE b
        hi(a, b) == IF a >= b THEN a ELSE b
    IN Slice2D(FullView(height, width), lo(ul[1], lr[1]), hi(ul[1], lr[1]), 1,
                                        lo(ul[2], lr[2]), hi(ul[2], lr[2]), 1)

RefDoc == OutputData(Band(height, width), SampleView(RefSubset))

NoIOFault == error \notin {"RasterioIOError", "OSError"}

\* C9 as stated: the run with the diagnostic computations and the run without
\* them agree on the output file and on success: barring a read or write
\* failure, either one exits with status 0 having written the document of the
\* run without diagnostics.
C9_Original ==
    (Finished /\ "open" \in done /\ NoIOFault) =>
        /\ exitStatus = 0
        /\ fs[DefaultOutput] = JsonFile(RefDoc)

\* C9 amended: the two runs agree whenever the extracted slice is non-empty
\* and the test point's index lies within -height..height-1 and
\* -width..width-1; otherwise the run with diagnostics ends with an uncaught
\* ValueError or IndexError before anything is written.
C9_AgreeWhenDiagnosticsPass ==
    (/\ Finished /\ "open" \in done /\ NoIOFault
     /\ Len(RefSubset.rows) > 0 /\ Len(RefSubset.cols) > 0
     /\ ~TestIndexOutside) =>
        /\ exitStatus = 0
        /\ fs[DefaultOutput] = JsonFile(RefDoc)

C9_Witness ==
    /\ Finished
    /\ diagnostics
    /\ "stats" \in done
    /\ TestIndex[1] < 0
    /\ exitStatus = 0
    /\ fs[DefaultOutput] = JsonFile(RefDoc)

\* C10: the output file is opened for writing at most once, and only after
\* open, read, window, slice, test-point lookup and sampling have completed;
\* a run that fails before the write leaves the file system as it was; a run
\* that exits with status 0 has written the output file.
C10_SingleLateWrite ==
    /\ Len(opened) <= 1
    /\ opened # << >> =>
           {"open", "read", "window", "slice", "subset_stats", "test_point",
            "sample", "build"} \subseteq done
    /\ (Finished /\ exitStatus # 0 /\ "build" \notin done) =>
           (opened = << >> /\ fs = fs0)
    /\ pc # "exited" /\ pc # "stats" /\ pc # "close" => fs = fs0
    /\ Succeeded =>
           /\ opened = << output_file >>
           /\ "write" \in done
           /\ fs[output_file] = JsonFile(output_data)

C10_Witness ==
    /\ Succeeded
    /\ fs0[DefaultOutput] = Stale
    /\ fs[DefaultOutput].kind = "json"
    /\ Len(opened) = 1

====
